---- MODULE Spec2Model ----
(***************************************************************************)
(* Three-body gravitational simulation (src/main.js).                      *)
(*                                                                         *)
(* Numbers.  A JavaScript Number is modelled as a fixed-point integer      *)
(* with SCALE steps per unit (1.0 is SCALE), finite in                     *)
(* -MaxFinite..MaxFinite, together with the three IEEE-754 specials        *)
(* PosInf, NegInf and NaN, encoded just outside the finite range.  The     *)
(* arithmetic operators follow IEEE-754 on the specials (x/0, Inf-Inf,     *)
(* 0*Inf, NaN propagation, comparisons with NaN false) and round toward    *)
(* zero on finite values, so that negation commutes with every operation   *)
(* as it does for doubles.  Negative zero is not distinguished.            *)
(*                                                                         *)
(* Control.  JavaScript runs every callback to completion; the position    *)
(* inside the animation callback is the variable pc, which walks through   *)
(* the statements of animateThreeBodyProblem and updateBodies in source    *)
(* order.                                                                  *)
(***************************************************************************)
EXTENDS Integers, Sequences, FiniteSets, TLC

----------------------------------------------------------------------------
(* Scalars *)

SCALE == 1000

MaxFinite == 1000000000

PosInf == MaxFinite + 1
NegInf == -(MaxFinite + 1)
NaN == MaxFinite + 2

IsNaN(a) == a = NaN
IsInf(a) == a = PosInf \/ a = NegInf
IsFinite(a) == a >= -MaxFinite /\ a <= MaxFinite

Abs(a) == IF a < 0 THEN -a ELSE a
Sign(a) == IF a < 0 THEN -1 ELSE 1
Inf(s) == IF s < 0 THEN NegInf ELSE PosInf

\* An exact integer result brought back into the representation.
Sat(n) == IF n > MaxFinite THEN PosInf ELSE IF n < -MaxFinite THEN NegInf ELSE n

\* a + b
numAdd(a, b) ==
  IF IsNaN(a) \/ IsNaN(b) THEN NaN
  ELSE IF IsInf(a) THEN (IF IsInf(b) /\ b # a THEN NaN ELSE a)
  ELSE IF IsInf(b) THEN b
  ELSE Sat(a + b)

\* -a
numNeg(a) == IF IsNaN(a) THEN NaN ELSE -a

\* a - b
numSub(a, b) == numAdd(a, numNeg(b))

\* |a * b| for magnitudes lo <= hi, the product formed in two parts so that it
\* overflows only when the result does.
MulMag(lo, hi) ==
  LET q == hi \div SCALE
      r == hi % SCALE
  IN IF q > 0 /\ lo > MaxFinite \div q THEN PosInf
     ELSE Sat(q * lo + (r * lo) \div SCALE)

\* a * b
numMul(a, b) ==
  IF IsNaN(a) \/ IsNaN(b) THEN NaN
  ELSE IF IsInf(a) \/ IsInf(b)
       THEN (IF a = 0 \/ b = 0 THEN NaN ELSE Inf(Sign(a) * Sign(b)))
  ELSE LET m == IF Abs(a) <= Abs(b) THEN MulMag(Abs(a), Abs(b))
                ELSE MulMag(Abs(b), Abs(a))
       IN IF Sign(a) * Sign(b) < 0 THEN -m ELSE m

\* |a / b| for magnitudes a and b > 0, the quotient formed in two parts so that
\* it overflows only when the result does.
DivMag(a, b) ==
  LET q == a \div b
      r == a % b
  IN IF q > MaxFinite \div SCALE THEN PosInf
     ELSE IF r > MaxFinite \div SCALE THEN Sat(q * SCALE + r \div (b \div SCALE))
     ELSE Sat(q * SCALE + (r * SCALE) \div b)

\* a / b
numDiv(a, b) ==
  IF IsNaN(a) \/ IsNaN(b) THEN NaN
  ELSE IF IsInf(a) THEN (IF IsInf(b) THEN NaN ELSE Inf(Sign(a) * Sign(b)))
  ELSE IF IsInf(b) THEN 0
  ELSE IF b = 0 THEN (IF a = 0 THEN NaN ELSE Inf(Sign(a)))
  ELSE LET m == DivMag(Abs(a), Abs(b))
       IN IF Sign(a) * Sign(b) < 0 THEN -m ELSE m

\* a < b
numLt(a, b) == ~IsNaN(a) /\ ~IsNaN(b) /\ a < b

\* a || b : a unless it is falsy (0 or NaN)
numOr(a, b) == IF a = 0 \/ IsNaN(a) THEN b ELSE a

RECURSIVE ISqrtIter(_, _, _)
ISqrtIter(n, lo, hi) ==
  IF hi - lo <= 1 THEN lo
  ELSE LET mid == (lo + hi) \div 2
       IN IF mid * mid <= n THEN ISqrtIter(n, mid, hi) ELSE ISqrtIter(n, lo, mid)

\* Floor of the square root of the integer n, 0 <= n <= MaxFinite.
ISqrt(n) == ISqrtIter(n, 0, 31623)

\* Math.sqrt(a)
numSqrt(a) ==
  IF IsNaN(a) \/ a < 0 THEN NaN
  ELSE IF a = PosInf THEN PosInf
  ELSE IF a > MaxFinite \div SCALE THEN ISqrt(a \div SCALE) * SCALE
  ELSE ISqrt(a * SCALE)

\* Floor of sqrt(x*x + y*y + z*z) for 0 <= x, y, z <= m, at the precision k at
\* which the sum of squares stays within the finite range.
RECURSIVE HypotAt(_, _, _, _, _)
HypotAt(x, y, z, m, k) ==
  IF (m \div k) > (MaxFinite \div 3) \div (m \div k)
  THEN HypotAt(x, y, z, m, 2 * k)
  ELSE Sat(ISqrt((x \div k) * (x \div k) + (y \div k) * (y \div k)
                 + (z \div k) * (z \div k)) * k)

\* Math.sqrt(x*x + y*y + z*z), the sum of squares kept at full precision.
numHypot(x, y, z) ==
  IF IsNaN(x) \/ IsNaN(y) \/ IsNaN(z) THEN NaN
  ELSE IF IsInf(x) \/ IsInf(y) \/ IsInf(z) THEN PosInf
  ELSE LET m  == IF Abs(x) >= Abs(y) /\ Abs(x) >= Abs(z) THEN Abs(x)
                 ELSE IF Abs(y) >= Abs(z) THEN Abs(y) ELSE Abs(z)
       IN IF m = 0 THEN 0 ELSE HypotAt(Abs(x), Abs(y), Abs(z), m, 1)

\* Conversion of a Number to a Float32Array element: 24 significant bits.
RECURSIVE FroundStep(_, _)
FroundStep(n, k) == IF n \div k < 16777216 THEN (n \div k) * k ELSE FroundStep(n, 2 * k)

Fround(a) == IF ~IsFinite(a) THEN a ELSE Sign(a) * FroundStep(Abs(a), 1)

----------------------------------------------------------------------------
(* THREE.Vector3 *)

Vector3(x, y, z) == [x |-> x, y |-> y, z |-> z]

add(v, w) == Vector3(numAdd(v.x, w.x), numAdd(v.y, w.y), numAdd(v.z, w.z))
sub(v, w) == Vector3(numSub(v.x, w.x), numSub(v.y, w.y), numSub(v.z, w.z))
negate(v) == Vector3(numNeg(v.x), numNeg(v.y), numNeg(v.z))
multiplyScalar(v, s) == Vector3(numMul(v.x, s), numMul(v.y, s), numMul(v.z, s))
divideScalar(v, s) == Vector3(numDiv(v.x, s), numDiv(v.y, s), numDiv(v.z, s))
length(v) == numHypot(v.x, v.y, v.z)
normalize(v) == divideScalar(v, numOr(length(v), SCALE))
distanceTo(v, w) == length(sub(v, w))

VecFinite(v) == IsFinite(v.x) /\ IsFinite(v.y) /\ IsFinite(v.z)

----------------------------------------------------------------------------
(* Constants for simulation *)

G == SCALE
dt == SCALE \div 100
minDistance == SCALE \div 10
maxTrailLength == 100

----------------------------------------------------------------------------
(* class Body *)

ZeroVec == Vector3(0, 0, 0)

\* new Body(position, velocity, mass, color); the geometry starts without a
\* position attribute and with the default draw range {start: 0, count: Infinity}.
NewBody(position, velocity, mass) ==
  [position       |-> position,
   velocity       |-> velocity,
   mass           |-> mass,
   trailPositions |-> << >>,
   positionsArray |-> << >>,
   drawRange      |-> [start |-> 0, count |-> PosInf]]

applyForce(body, force) ==
  LET acceleration == divideScalar(force, body.mass)
  IN [body EXCEPT !.velocity = add(body.velocity, multiplyScalar(acceleration, dt))]

updatePosition(body) ==
  [body EXCEPT !.position = add(body.position, multiplyScalar(body.velocity, dt))]

\* Variant: the limit applied one entry early.
LimitTrailOffByOne(pushed) ==
  IF Len(pushed) >= maxTrailLength THEN Tail(pushed) ELSE pushed

\* The trail after the push and the length limit.
LimitTrail(pushed) ==
  IF Len(pushed) > maxTrailLength THEN Tail(pushed) ELSE pushed

\* The Float32Array filled by the forEach: element i of the trail at the
\* (0-based) indices 3i, 3i+1, 3i+2.
FlatArray(trail) ==
  [k \in 1..(Len(trail) * 3) |->
     LET pos == trail[((k - 1) \div 3) + 1]
         c   == (k - 1) % 3
     IN Fround(IF c = 0 THEN pos.x ELSE IF c = 1 THEN pos.y ELSE pos.z)]

\* Variant: the draw range covers the trail's capacity.
TrailDrawRangeCapacity(trail) == [start |-> 0, count |-> maxTrailLength]

\* setDrawRange(0, this.trailPositions.length)
TrailDrawRange(trail) == [start |-> 0, count |-> Len(trail)]

updateTrail(body) ==
  LET trail == LimitTrail(Append(body.trailPositions, body.position))
  IN [body EXCEPT !.trailPositions = trail,
                  !.positionsArray = FlatArray(trail),
                  !.drawRange = TrailDrawRange(trail)]

----------------------------------------------------------------------------
(* Free functions *)

getOrbitalVelocity(body1, body2) ==
  LET distance == distanceTo(body1.position, body2.position)
  IN numSqrt(numDiv(numMul(G, body2.mass), distance))

\* Variant: the radial direction used without the quarter turn.
SeedVelocityRadial(body, ref) ==
  LET orbitalVelocity == getOrbitalVelocity(body, ref)
      direction == normalize(sub(body.position, ref.position))
  IN multiplyScalar(Vector3(direction.x, direction.y, 0), orbitalVelocity)

\* The velocity given to a body set on a circular orbit around ref.
SeedVelocity(body, ref) ==
  LET orbitalVelocity == getOrbitalVelocity(body, ref)
      direction == normalize(sub(body.position, ref.position))
  IN multiplyScalar(Vector3(numNeg(direction.y), direction.x, 0), orbitalVelocity)

\* Variant: no distance floor.
ClampDistanceNone(distance) == distance

\* if (distance < minDistance) distance = minDistance
ClampDistance(distance) ==
  IF numLt(distance, minDistance) THEN minDistance ELSE distance

\* Variant: the direction obtained by dividing by the raw length.
computeGravitationalForceUnguarded(body1, body2) ==
  LET distanceVec == sub(body2.position, body1.position)
      distance == ClampDistance(length(distanceVec))
      forceMagnitude ==
        numDiv(numMul(numMul(G, body1.mass), body2.mass), numMul(distance, distance))
  IN multiplyScalar(divideScalar(distanceVec, length(distanceVec)), forceMagnitude)

computeGravitationalForce(body1, body2) ==
  LET distanceVec == sub(body2.position, body1.position)
      distance == ClampDistance(length(distanceVec))
      forceMagnitude ==
        numDiv(numMul(numMul(G, body1.mass), body2.mass), numMul(distance, distance))
  IN multiplyScalar(normalize(distanceVec), forceMagnitude)

BodyIds == {"A", "B", "C"}
Pairs == {<<"A", "B">>, <<"A", "C">>, <<"B", "C">>}

\* Variant: forceAB handed to bodyB without the negation.
ContributionsUnpaired(b, f) ==
  CASE b = "A" -> [B |-> f[<<"A", "B">>], C |-> f[<<"A", "C">>]]
    [] b = "B" -> [A |-> f[<<"A", "B">>], C |-> f[<<"B", "C">>]]
    [] b = "C" -> [A |-> negate(f[<<"A", "C">>]), B |-> negate(f[<<"B", "C">>])]

\* The two terms of the force handed to each body's applyForce, named by the
\* body the term comes from.
Contributions(b, f) ==
  CASE b = "A" -> [B |-> f[<<"A", "B">>], C |-> f[<<"A", "C">>]]
    [] b = "B" -> [A |-> negate(f[<<"A", "B">>]), C |-> f[<<"B", "C">>]]
    [] b = "C" -> [A |-> negate(f[<<"A", "C">>]), B |-> negate(f[<<"B", "C">>])]

\* first.add(second), in the order the source writes the two terms.
NetForce(b, c) ==
  CASE b = "A" -> add(c.B, c.C)
    [] b = "B" -> add(c.A, c.C)
    [] b = "C" -> add(c.A, c.B)

\* Variant: the positions advanced before the forces are applied.
updateBodiesStepsPositionFirst ==
  << [op |-> "force", on |-> <<"A", "B">>],
     [op |-> "force", on |-> <<"A", "C">>],
     [op |-> "force", on |-> <<"B", "C">>],
     [op |-> "pos",   on |-> "A"],
     [op |-> "pos",   on |-> "B"],
     [op |-> "pos",   on |-> "C"],
     [op |-> "apply", on |-> "A"],
     [op |-> "apply", on |-> "B"],
     [op |-> "apply", on |-> "C"],
     [op |-> "trail", on |-> "A"],
     [op |-> "trail", on |-> "B"],
     [op |-> "trail", on |-> "C"] >>

\* Variant: bodyA advanced before the forces on bodyC and bodyB are computed.
updateBodiesStepsBodyFirst ==
  << [op |-> "force", on |-> <<"A", "B">>],
     [op |-> "pos",   on |-> "A"],
     [op |-> "force", on |-> <<"A", "C">>],
     [op |-> "force", on |-> <<"B", "C">>],
     [op |-> "apply", on |-> "A"],
     [op |-> "apply", on |-> "B"],
     [op |-> "apply", on |-> "C"],
     [op |-> "pos",   on |-> "B"],
     [op |-> "pos",   on |-> "C"],
     [op |-> "trail", on |-> "A"],
     [op |-> "trail", on |-> "B"],
     [op |-> "trail", on |-> "C"] >>

\* The statements of updateBodies, in source order.
updateBodiesSteps ==
  << [op |-> "force", on |-> <<"A", "B">>],
     [op |-> "force", on |-> <<"A", "C">>],
     [op |-> "force", on |-> <<"B", "C">>],
     [op |-> "apply", on |-> "A"],
     [op |-> "apply", on |-> "B"],
     [op |-> "apply", on |-> "C"],
     [op |-> "pos",   on |-> "A"],
     [op |-> "pos",   on |-> "B"],
     [op |-> "pos",   on |-> "C"],
     [op |-> "trail", on |-> "A"],
     [op |-> "trail", on |-> "B"],
     [op |-> "trail", on |-> "C"] >>

\* Variant: the meshes synchronised before updateBodies runs.
animateStepsSyncFirst ==
  << [op |-> "raf", on |-> "-"],
     [op |-> "sync", on |-> "-"] >> \o updateBodiesSteps \o
  << [op |-> "controls", on |-> "-"],
     [op |-> "render", on |-> "-"] >>

\* The statements of animateThreeBodyProblem, in source order.
animateSteps ==
  << [op |-> "raf", on |-> "-"] >> \o updateBodiesSteps \o
  << [op |-> "sync", on |-> "-"],
     [op |-> "controls", on |-> "-"],
     [op |-> "render", on |-> "-"] >>

\* The arguments of the three constructor calls.
InitialArgs ==
  [A |-> [position |-> Vector3(0, 2 * SCALE, 0), velocity |-> ZeroVec, mass |-> SCALE],
   B |-> [position |-> Vector3(SCALE, 0, SCALE), velocity |-> ZeroVec, mass |-> SCALE],
   C |-> [position |-> Vector3(-SCALE, 0, SCALE), velocity |-> ZeroVec, mass |-> SCALE]]

----------------------------------------------------------------------------
(* Bounds *)

\* Animation frames explored from the source's own initial configuration.
MaxFrames == 103

\* Animation frames explored from each drawn configuration.
UnitFrames == 2

\* Largest mass (in units) of a drawn configuration.
MaxMass == 2

----------------------------------------------------------------------------
(* State *)

VARIABLES
  args,        \* the constructor arguments of the three bodies
  frameLimit,  \* frames this run may perform
  pc,          \* "construct", "seedA", "seedC", "main", "frame", "idle"
  ip,          \* inside the callback: index of the next statement of animateSteps
  bodies,      \* bodyA, bodyB, bodyC once constructed
  force,       \* forceAB, forceAC, forceBC of updateBodies
  spheres,     \* sphereA/B/C.position
  rafPending,  \* a callback is registered with requestAnimationFrame
  frames,      \* calls of animateThreeBodyProblem so far
  renders,     \* calls of renderer.render so far
  shown,       \* what the last render presented
  nForce,      \* per pair: completed computeGravitationalForce calls
  nVel, nPos, nTrail, \* per body: completed applyForce / updatePosition / updateTrail
  contrib,     \* per body: the terms of the force last handed to applyForce
  tickStart,   \* position and velocity of each body when the current tick began
  ticks,       \* completed updateBodies calls
  hist         \* per body: its position at the end of every completed tick

vars == <<args, frameLimit, pc, ip, bodies, force, spheres, rafPending, frames,
          renders, shown, nForce, nVel, nPos, nTrail, contrib, tickStart, ticks,
          hist>>

Kinematics(bs) ==
  [b \in DOMAIN bs |-> [position |-> bs[b].position, velocity |-> bs[b].velocity,
                        mass |-> bs[b].mass]]

InitWith(a, limit) ==
  /\ args = a
  /\ frameLimit = limit
  /\ pc = "construct"
  /\ ip = 0
  /\ bodies = << >>
  /\ force = [p \in Pairs |-> ZeroVec]
  /\ spheres = [b \in BodyIds |-> ZeroVec]
  /\ rafPending = FALSE
  /\ frames = 0
  /\ renders = 0
  /\ shown = << >>
  /\ nForce = [p \in Pairs |-> 0]
  /\ nVel = [b \in BodyIds |-> 0]
  /\ nPos = [b \in BodyIds |-> 0]
  /\ nTrail = [b \in BodyIds |-> 0]
  /\ contrib = [b \in BodyIds |-> << >>]
  /\ tickStart = << >>
  /\ ticks = 0
  /\ hist = [b \in BodyIds |-> << >>]

Init == InitWith(InitialArgs, MaxFrames)

----------------------------------------------------------------------------
(* Module top level *)

\* const bodyA = new Body(...); const bodyB = ...; const bodyC = ...
ConstructBodies ==
  /\ pc = "construct"
  /\ bodies' = [b \in BodyIds |->
                  NewBody(args[b].position, args[b].velocity, args[b].mass)]
  /\ pc' = "seedA"
  /\ UNCHANGED <<args, frameLimit, ip, force, spheres, rafPending, frames, renders,
                 shown, nForce, nVel, nPos, nTrail, contrib, tickStart, ticks, hist>>

\* bodyA.velocity = new THREE.Vector3(-directionAB.y, directionAB.x, 0)...
SeedVelocityA ==
  /\ pc = "seedA"
  /\ bodies' = [bodies EXCEPT !["A"].velocity = SeedVelocity(bodies["A"], bodies["B"])]
  /\ pc' = "seedC"
  /\ UNCHANGED <<args, frameLimit, ip, force, spheres, rafPending, frames, renders,
                 shown, nForce, nVel, nPos, nTrail, contrib, tickStart, ticks, hist>>

\* bodyC.velocity = new THREE.Vector3(-directionBC.y, directionBC.x, 0)...
SeedVelocityC ==
  /\ pc = "seedC"
  /\ bodies' = [bodies EXCEPT !["C"].velocity = SeedVelocity(bodies["C"], bodies["B"])]
  /\ pc' = "main"
  /\ UNCHANGED <<args, frameLimit, ip, force, spheres, rafPending, frames, renders,
                 shown, nForce, nVel, nPos, nTrail, contrib, tickStart, ticks, hist>>

\* Entering animateThreeBodyProblem.
EnterFrame ==
  /\ pc' = "frame"
  /\ ip' = 1
  /\ frames' = frames + 1
  /\ tickStart' = Kinematics(bodies)
  /\ UNCHANGED <<args, frameLimit, bodies, force, spheres, renders, shown,
                 nForce, nVel, nPos, nTrail, contrib, ticks, hist>>

\* animateThreeBodyProblem(); at the end of the module
StartAnimation ==
  /\ pc = "main"
  /\ frames < frameLimit
  /\ EnterFrame
  /\ UNCHANGED rafPending

\* The browser runs the registered callback once no other callback is running.
FrameCallback ==
  /\ pc = "idle"
  /\ rafPending
  /\ frames < frameLimit
  /\ rafPending' = FALSE
  /\ EnterFrame

----------------------------------------------------------------------------
(* Statements of animateThreeBodyProblem and updateBodies *)

Stmt == animateSteps[ip]

At(op) == pc = "frame" /\ Stmt.op = op

\* The statement is one of updateBodies.
InUpdate(i) == animateSteps[i].op \in {"force", "apply", "pos", "trail"}

\* The statement at ip is the last one of updateBodies.
TickEnds == InUpdate(ip) /\ (ip = Len(animateSteps) \/ ~InUpdate(ip + 1))

\* To the next statement; the callback returns after the last.
Advance ==
  IF ip < Len(animateSteps)
  THEN ip' = ip + 1 /\ pc' = pc
  ELSE ip' = 0 /\ pc' = "idle"

\* The record of completed ticks, kept when updateBodies returns.
Record(newBodies) ==
  IF TickEnds
  THEN /\ ticks' = ticks + 1
       /\ hist' = [b \in BodyIds |-> Append(hist[b], newBodies[b].position)]
  ELSE UNCHANGED <<ticks, hist>>

\* requestAnimationFrame(animateThreeBodyProblem)
RequestFrame ==
  /\ At("raf")
  /\ rafPending' = TRUE
  /\ Advance
  /\ UNCHANGED <<args, frameLimit, bodies, force, spheres, frames, renders, shown,
                 nForce, nVel, nPos, nTrail, contrib, tickStart, ticks, hist>>

\* const forceXY = computeGravitationalForce(bodyX, bodyY)
ComputeForce ==
  /\ At("force")
  /\ force' = [force EXCEPT ![Stmt.on] =
                 computeGravitationalForce(bodies[Stmt.on[1]], bodies[Stmt.on[2]])]
  /\ nForce' = [nForce EXCEPT ![Stmt.on] = @ + 1]
  /\ Advance
  /\ Record(bodies)
  /\ UNCHANGED <<args, frameLimit, bodies, spheres, rafPending, frames, renders, shown,
                 nVel, nPos, nTrail, contrib, tickStart>>

\* bodyX.applyForce(...)
ApplyForce ==
  /\ At("apply")
  /\ LET b == Stmt.on
         c == Contributions(b, force)
     IN /\ contrib' = [contrib EXCEPT ![b] = c]
        /\ bodies' = [bodies EXCEPT ![b] = applyForce(bodies[b], NetForce(b, c))]
        /\ nVel' = [nVel EXCEPT ![b] = @ + 1]
  /\ Advance
  /\ Record(bodies')
  /\ UNCHANGED <<args, frameLimit, force, nForce, spheres, rafPending, frames, renders,
                 shown, nPos, nTrail, tickStart>>

\* bodyX.updatePosition()
UpdatePosition ==
  /\ At("pos")
  /\ LET b == Stmt.on
     IN /\ bodies' = [bodies EXCEPT ![b] = updatePosition(bodies[b])]
        /\ nPos' = [nPos EXCEPT ![b] = @ + 1]
  /\ Advance
  /\ Record(bodies')
  /\ UNCHANGED <<args, frameLimit, force, spheres, rafPending, frames, renders, shown,
                 nForce, nVel, nTrail, contrib, tickStart>>

\* bodyX.updateTrail()
UpdateTrail ==
  /\ At("trail")
  /\ LET b == Stmt.on
     IN /\ bodies' = [bodies EXCEPT ![b] = updateTrail(bodies[b])]
        /\ nTrail' = [nTrail EXCEPT ![b] = @ + 1]
  /\ Advance
  /\ Record(bodies')
  /\ UNCHANGED <<args, frameLimit, force, spheres, rafPending, frames, renders, shown,
                 nForce, nVel, nPos, contrib, tickStart>>

\* sphereA.position.copy(bodyA.position); ... B; ... C
SyncMeshes ==
  /\ At("sync")
  /\ spheres' = [b \in BodyIds |-> bodies[b].position]
  /\ Advance
  /\ UNCHANGED <<args, frameLimit, bodies, force, rafPending, frames, renders, shown,
                 nForce, nVel, nPos, nTrail, contrib, tickStart, ticks, hist>>

\* controls.update(): moves the camera only.
UpdateControls ==
  /\ At("controls")
  /\ Advance
  /\ UNCHANGED <<args, frameLimit, bodies, force, spheres, rafPending, frames, renders,
                 shown, nForce, nVel, nPos, nTrail, contrib, tickStart, ticks, hist>>

\* renderer.render(scene, camera): presents the meshes and the trail lines.
Render ==
  /\ At("render")
  /\ renders' = renders + 1
  /\ shown' = [frame   |-> frames,
               spheres |-> spheres,
               drawn   |-> [b \in BodyIds |-> bodies[b].drawRange.count],
               nVel    |-> nVel,
               nPos    |-> nPos,
               nTrail  |-> nTrail]
  /\ Advance
  /\ UNCHANGED <<args, frameLimit, bodies, force, spheres, rafPending, frames,
                 nForce, nVel, nPos, nTrail, contrib, tickStart, ticks, hist>>

Next ==
  \/ ConstructBodies
  \/ SeedVelocityA
  \/ SeedVelocityC
  \/ StartAnimation
  \/ FrameCallback
  \/ RequestFrame
  \/ ComputeForce
  \/ ApplyForce
  \/ UpdatePosition
  \/ UpdateTrail
  \/ SyncMeshes
  \/ UpdateControls
  \/ Render

Spec == Init /\ [][Next]_vars

----------------------------------------------------------------------------
(* computeGravitationalForce on drawn inputs: body C placed at a small offset
   from body A (coincident, inside, on and outside the distance floor) or at
   its own initial position, with the masses of A and C drawn. *)

Offsets ==
  { Vector3(0, 0, 0), Vector3(30, 40, 0), Vector3(0, 0, -99),
    Vector3(60, 80, 0), Vector3(0, 200, 0) }

CPositions ==
  { add(InitialArgs["A"].position, o) : o \in Offsets } \cup { InitialArgs["C"].position }

ForceArgs(posC, massA, massC) ==
  [InitialArgs EXCEPT !["A"].mass = massA * SCALE,
                      !["C"].mass = massC * SCALE,
                      !["C"].position = posC]

InitForce ==
  \E posC \in CPositions, massA \in 1..MaxMass, massC \in 1..MaxMass :
    InitWith(ForceArgs(posC, massA, massC), UnitFrames)

SpecForce == InitForce /\ [][Next]_vars

----------------------------------------------------------------------------
(* The Body constructor on drawn masses, zero and negative included. *)

CtorMasses == {-SCALE, 0, SCALE}

BodyArgs(massA, massB, massC) ==
  [InitialArgs EXCEPT !["A"].mass = massA, !["B"].mass = massB, !["C"].mass = massC]

InitBody ==
  \E massA \in CtorMasses, massB \in CtorMasses, massC \in CtorMasses :
    InitWith(BodyArgs(massA, massB, massC), UnitFrames)

SpecBody == InitBody /\ [][Next]_vars

----------------------------------------------------------------------------
(* Properties *)

Constructed == pc # "construct"

\* Some statement of updateBodies has run in this frame and some has not yet.
MidTick == pc = "frame" /\ ip > 1 /\ InUpdate(ip) /\ InUpdate(ip - 1)

\* The current frame's tick has advanced body b's velocity and position.
Advanced(b) == frames > 0 /\ nVel[b] = frames /\ nPos[b] = frames

Min(a, b) == IF a <= b THEN a ELSE b

\* The last k elements of s.
LastN(s, k) == SubSeq(s, Len(s) - k + 1, Len(s))

\* C1, state part: at every tick boundary each trail is no longer than
\* maxTrailLength and holds the positions at the end of the last
\* min(ticks, maxTrailLength) ticks, oldest first, without gaps.
TrailWindow ==
  (Constructed /\ ~MidTick) =>
    \A b \in BodyIds :
      /\ Len(hist[b]) = ticks
      /\ Len(bodies[b].trailPositions) <= maxTrailLength
      /\ bodies[b].trailPositions = LastN(hist[b], Min(ticks, maxTrailLength))

\* C1, step part: an updateTrail on a full trail removes exactly the oldest
\* entry and appends the current position.
TrailEvict ==
  \A b \in BodyIds :
    (pc = "frame" /\ nTrail'[b] = nTrail[b] + 1
       /\ Len(bodies[b].trailPositions) = maxTrailLength)
    => bodies'[b].trailPositions =
         Append(Tail(bodies[b].trailPositions), bodies[b].position)

\* C1: the trail is a sliding window over the last maxTrailLength end-of-tick
\* positions, and a full trail loses exactly its oldest entry on each
\* updateTrail.
C1_TrailSlidingWindow == []TrailWindow /\ [][TrailEvict]_vars

C1_Witness ==
  /\ pc = "idle"
  /\ ticks = maxTrailLength + 2
  /\ \A b \in BodyIds : Len(bodies[b].trailPositions) = maxTrailLength
  /\ bodies["A"].trailPositions[1] # hist["A"][1]

C3_SemiImplicitEuler ==
  \A b \in BodyIds :
    Advanced(b) =>
      LET F == NetForce(b, contrib[b])
          v == add(tickStart[b].velocity,
                   multiplyScalar(divideScalar(F, tickStart[b].mass), dt))
      IN /\ bodies[b].velocity = v
         /\ bodies[b].position = add(tickStart[b].position, multiplyScalar(v, dt))

\* The position update used a velocity that differs, after scaling by dt, from
\* the velocity before the tick.
C3_Witness ==
  /\ Advanced("A")
  /\ multiplyScalar(bodies["A"].velocity, dt) # multiplyScalar(tickStart["A"].velocity, dt)

\* The three forces of a tick, computed from the bodies in s.
ForcesOf(s) == [p \in Pairs |-> computeGravitationalForce(s[p[1]], s[p[2]])]

\* Bodies processed one after the other in the given order, each one's
\* velocity and position advanced with the net force from f.
RECURSIVE ProcessInOrder(_, _, _)
ProcessInOrder(order, s, f) ==
  IF order = << >> THEN s
  ELSE LET b == Head(order)
       IN ProcessInOrder(Tail(order),
            [s EXCEPT ![b] = updatePosition(applyForce(s[b], NetForce(b, Contributions(b, f))))],
            f)

Orders == { o \in [1..3 -> BodyIds] : \A i \in 1..3, j \in 1..3 : o[i] = o[j] => i = j }

\* C4: every force of a tick is the force between the positions at the start
\* of the tick, and the tick's result is what processing the bodies in any
\* order, from the forces of the starting positions, gives.
C4_ForcesFromTickStart ==
  /\ \A p \in Pairs :
       (frames > 0 /\ nForce[p] = frames)
       => force[p] = computeGravitationalForce(tickStart[p[1]], tickStart[p[2]])
  /\ (\A b \in BodyIds : Advanced(b))
     => \A o \in Orders :
          Kinematics(bodies) = ProcessInOrder(o, tickStart, ForcesOf(tickStart))

\* A tick is complete in which every body moved.
C4_Witness ==
  /\ frames = 2
  /\ \A b \in BodyIds : Advanced(b)
  /\ \A b \in {"A", "C"} : bodies[b].position # tickStart[b].position

\* Rounding slack of a magnitude m computed over a distance d > 0: a few steps
\* of the representation, and one step in the distance and in a unit component.
Slack(m, d) == 3 + m \div 200 + m \div d

Close(a, m, d) == Abs(a - m) <= Slack(m, d)

\* G * m1 * m2
Gmm(p) == numMul(numMul(G, tickStart[p[1]].mass), tickStart[p[2]].mass)

\* The distance of the pair when its force was computed.
DistanceOf(p) == distanceTo(tickStart[p[2]].position, tickStart[p[1]].position)

\* G * m1 * m2 / minDistance^2
ForceCap(p) == numDiv(Gmm(p), numMul(minDistance, minDistance))

Computed(p) == frames > 0 /\ nForce[p] = frames

\* C5 as stated: below minDistance the magnitude is G*m1*m2/minDistance^2,
\* from minDistance on it is G*m1*m2/distance^2, and it never exceeds
\* G*m1*m2/minDistance^2.
C5_AsStated ==
  \A p \in Pairs :
    Computed(p) =>
      LET d == DistanceOf(p)
          m == length(force[p])
          e == IF d = 0 THEN minDistance ELSE d
      IN /\ d < minDistance => Close(m, ForceCap(p), e)
         /\ d >= minDistance => Close(m, numDiv(Gmm(p), numMul(d, d)), d)
         /\ m <= ForceCap(p) + Slack(ForceCap(p), e)

\* C5, amended: for a distance strictly between 0 and minDistance the magnitude
\* is G*m1*m2/minDistance^2, from minDistance on it is G*m1*m2/distance^2, for
\* two bodies at the same position the force is the zero vector, and the
\* magnitude never exceeds G*m1*m2/minDistance^2.
C5_DistanceFloor ==
  \A p \in Pairs :
    Computed(p) =>
      LET d == DistanceOf(p)
          m == length(force[p])
          e == IF d = 0 THEN minDistance ELSE d
      IN /\ (0 < d /\ d < minDistance) => Close(m, ForceCap(p), d)
         /\ d >= minDistance => Close(m, numDiv(Gmm(p), numMul(d, d)), d)
         /\ d = 0 => force[p] = ZeroVec
         /\ m <= ForceCap(p) + Slack(ForceCap(p), e)

\* A force computed at a distance strictly between 0 and minDistance.
C5_Witness ==
  /\ Computed(<<"A", "C">>)
  /\ 0 < DistanceOf(<<"A", "C">>)
  /\ DistanceOf(<<"A", "C">>) < minDistance
  /\ length(force[<<"A", "C">>]) >= ForceCap(<<"A", "C">>) - ForceCap(<<"A", "C">>) \div 50

\* C6: no Body with mass <= 0 is ever created.
C6_NoNonPositiveMass ==
  Constructed => \A b \in BodyIds : numLt(0, bodies[b].mass)

\* C7: whenever the loop copies the positions to the meshes and renders, every
\* body has completed the same number of velocity updates, position updates and
\* trail appends, one per frame; what a render presented is the state at the
\* end of that frame's tick; and a frame performs one tick.
C7_TickAtomicForRenderer ==
  /\ (pc = "frame" /\ Stmt.op \in {"sync", "controls", "render"})
     => /\ ticks = frames
        /\ \A b \in BodyIds : nVel[b] = frames /\ nPos[b] = frames /\ nTrail[b] = frames
  /\ (pc = "frame" /\ Stmt.op = "render")
     => \A b \in BodyIds : spheres[b] = bodies[b].position
  /\ renders > 0
     => /\ shown.frame = renders
        /\ \A b \in BodyIds :
             /\ shown.nVel[b] = shown.frame
             /\ shown.nPos[b] = shown.frame
             /\ shown.nTrail[b] = shown.frame
             /\ shown.spheres[b] = hist[b][shown.frame]
             /\ shown.drawn[b] = Min(shown.frame, maxTrailLength)
  /\ pc = "idle" => ticks = frames /\ renders = frames

C7_Witness ==
  /\ pc = "frame"
  /\ Stmt.op = "render"
  /\ frames = 3
  /\ renders = 2
  /\ shown.spheres["A"] # spheres["A"]

\* C8: for two bodies at exactly the same position the force is the zero
\* vector, and every component of every position, velocity and force stays
\* finite.
C8_CoincidentZeroForce ==
  /\ \A p \in Pairs :
       (Computed(p) /\ tickStart[p[1]].position = tickStart[p[2]].position)
       => force[p] = ZeroVec
  /\ \A p \in Pairs : VecFinite(force[p])
  /\ Constructed
     => \A b \in BodyIds : VecFinite(bodies[b].position) /\ VecFinite(bodies[b].velocity)

\* Two coincident bodies went through a whole tick.
C8_Witness ==
  /\ pc = "idle"
  /\ frames = 2
  /\ tickStart["A"].position = tickStart["C"].position
  /\ bodies["A"].position = bodies["C"].position
  /\ bodies["A"].position # tickStart["A"].position

\* C9: after updateTrail the flat array has 3 * (trail length) values, entry i
\* of the trail at the (0-based) indices 3i, 3i+1, 3i+2 as x, y, z, and the draw
\* range is [0, trail length).
C9_RenderReadyTrail ==
  \A b \in BodyIds :
    nTrail[b] > 0 =>
      LET trail == bodies[b].trailPositions
          flat  == bodies[b].positionsArray
      IN /\ Len(flat) = 3 * Len(trail)
         /\ \A i \in 0..(Len(trail) - 1) :
              /\ flat[3 * i + 1] = Fround(trail[i + 1].x)
              /\ flat[3 * i + 2] = Fround(trail[i + 1].y)
              /\ flat[3 * i + 3] = Fround(trail[i + 1].z)
         /\ bodies[b].drawRange = [start |-> 0, count |-> Len(trail)]

\* A trail not yet full and a full trail after an eviction.
C9_Witness ==
  /\ nTrail["A"] = maxTrailLength + 1
  /\ bodies["A"].drawRange.count = maxTrailLength
  /\ Len(bodies["A"].positionsArray) = 3 * maxTrailLength
  /\ bodies["A"].positionsArray[1] # Fround(hist["A"][1].x)

\* The velocity (-u.y, u.x, 0) * sqrt(G * ref.mass / distance(p, ref)), u the
\* unit vector from ref to p.
OrbitVelocity(p, ref) ==
  LET u == normalize(sub(p.position, ref.position))
      speed == numSqrt(numDiv(numMul(G, ref.mass), distanceTo(p.position, ref.position)))
  IN Vector3(numMul(numNeg(u.y), speed), numMul(u.x, speed), numMul(0, speed))

\* C10: the seeding gives A and C the orbital velocity around B and leaves B's
\* velocity and every position and mass as constructed.
C10_VelocitySeeding ==
  /\ pc \in {"seedA", "seedC", "main"}
     => \A b \in BodyIds :
          /\ bodies[b].position = args[b].position
          /\ bodies[b].mass = args[b].mass
          /\ bodies[b].trailPositions = << >>
  /\ pc \in {"seedC", "main"}
     => /\ bodies["A"].velocity = OrbitVelocity(args["A"], args["B"])
        /\ bodies["B"].velocity = args["B"].velocity
  /\ pc = "main"
     => bodies["C"].velocity = OrbitVelocity(args["C"], args["B"])

C10_Witness ==
  /\ pc = "main"
  /\ bodies["A"].velocity # ZeroVec
  /\ bodies["C"].velocity # ZeroVec
  /\ bodies["A"].velocity # bodies["C"].velocity
  /\ bodies["B"].velocity = ZeroVec

====
